---------------------------- MODULE Spec2Model ----------------------------
(***************************************************************************)
(* A model of the pentagon-pizza-meter backend: the three feeds (defense   *)
(* stock quotes, news risk scoring, pizza-venue busyness), their module    *)
(* level cache slots, and the /update handler that aggregates them.        *)
(*                                                                         *)
(* Conventions                                                             *)
(*   - a Python dict is a record; a key that may be absent is a field that *)
(*     may be missing from the record's DOMAIN;                            *)
(*   - a nullable number is a tuple: <<>> is None, <<n>> is the number n;  *)
(*   - a call that raises yields [raised |-> "<ExceptionType>"], a call    *)
(*     that returns yields [value |-> ...];                                *)
(*   - decimals are scaled integers: a percent change is kept in           *)
(*     hundredths of a percent, a percent_difference in tenths of a        *)
(*     percent, a severity in ten-thousandths; rounding is round-half-even *)
(*     on the exact quotient (binary floating point error is not modelled).*)
(***************************************************************************)
EXTENDS Integers, Sequences, FiniteSets, TLC

VARIABLES
    now,            \* the wall clock, in hours since the model's epoch
    stocks_data,    \* stocks.py: module-level slot of the quotes feed
    stocks_task,    \* the in-flight update_stocks_data call
    pizza_data,     \* pizza.py: module-level slot of the venues feed
    pizza_task,     \* the in-flight update_pentagon_pizza_data call
    read_result,    \* what the most recent read accessor call returned
    headlines_cache,\* news_analysis.py: the content of cache/headlines_cache.json
    db,             \* app.py: the 'analyses' collection of the document store
    call,           \* the most recent call of a function checked on its own
    rival,          \* a second call of a feed's update function, in another thread
    heap            \* the objects the slots and a reader's reference point to

vars == <<now, stocks_data, stocks_task, pizza_data, pizza_task, read_result,
          headlines_cache, db, call, rival, heap>>

\* what only the specifications of overlapping calls and of object identity use
auxVars == <<rival, heap>>

\* the module-level slots of stocks.py and pizza.py and what works on them
cacheVars == <<stocks_data, stocks_task, pizza_data, pizza_task, read_result, auxVars>>

\* what the /update handler of app.py and its callees work on
appVars == <<headlines_cache, db, call>>

(***************************************************************************)
(* Python values                                                           *)
(***************************************************************************)
None == [none |-> TRUE]

Null == <<>>

Some(n) == <<n>>

Raise(exc) == [raised |-> exc]

Return(v) == [value |-> v]

Raised(r) == "raised" \in DOMAIN r

Abs(n) == IF n < 0 THEN -n ELSE n

\* round(n/d) to the nearest integer, ties to the even one (Python's round
\* and the .2f format both round half to even); d > 0
RoundHalfEven(n, d) ==
    LET q == n \div d
        r == n % d
    IN  IF 2 * r < d THEN q
        ELSE IF 2 * r > d THEN q + 1
        ELSE IF q % 2 = 0 THEN q ELSE q + 1

RECURSIVE SumSeq(_)
SumSeq(s) == IF s = <<>> THEN 0 ELSE Head(s) + SumSeq(Tail(s))

RECURSIVE MaxSeq(_)
MaxSeq(s) ==
    IF Len(s) = 1 THEN s[1]
    ELSE LET m == MaxSeq(Tail(s)) IN IF s[1] >= m THEN s[1] ELSE m

RECURSIVE MinSeq(_)
MinSeq(s) ==
    IF Len(s) = 1 THEN s[1]
    ELSE LET m == MinSeq(Tail(s)) IN IF s[1] <= m THEN s[1] ELSE m

(***************************************************************************)
(* Quotes feed: stocks.py and the older defense_stocks.py                  *)
(***************************************************************************)
DEFENSE_TICKERS ==
    <<"LMT", "RTX", "BA", "GD", "NOC", "HII", "LHX", "BAESY", "LDOS", "AXON">>

\* number of hundredths of a percent in 100 %: ((c - p) / p) * 100, 2 decimals
PctScale == 10000

\* What yf.Ticker(t).info can be for one ticker: the lookup raises, or it is
\* a dict in which either price key may be missing.
NominalInfo == [currentPrice |-> 100, previousClose |-> 90]

InfoCases ==
    { NominalInfo,
      [yf_error |-> TRUE],
      [currentPrice |-> 100, previousClose |-> 0],
      [currentPrice |-> 100, previousClose |-> 100],
      [currentPrice |-> 100, previousClose |-> 30000],
      [currentPrice |-> 30001, previousClose |-> 30000],
      [currentPrice |-> 100],
      [previousClose |-> 90],
      [symbol |-> 0] }

\* at most this many tickers of one fetch answer something else than NominalInfo
MaxOddTickers == 2

TickerIdx == 1..Len(DEFENSE_TICKERS)

QuoteInputs ==
    { [i \in TickerIdx |-> IF i \in DOMAIN g THEN g[i] ELSE NominalInfo] :
        g \in UNION { [D -> InfoCases \ {NominalInfo}] :
                        D \in {D \in SUBSET TickerIdx : Cardinality(D) <= MaxOddTickers} } }

\* every ticker answers the same way
UniformQuoteInputs == { [i \in TickerIdx |-> c] : c \in InfoCases }

\* info.get(key, 'N/A'): <<>> stands for the default 'N/A'
InfoGet(info, key) == IF key \in DOMAIN info THEN Some(info[key]) ELSE Null

\* sign of the unrounded ((current - previous) / previous) * 100, previous > 0
StatusOfSign(n) ==
    IF n > 0 THEN "increasing" ELSE IF n < 0 THEN "decreasing" ELSE "stable"

\* float(f"{price_change_percent:.2f}"), in hundredths of a percent
FormatChange2f(current, previous) ==
    RoundHalfEven((current - previous) * PctScale, previous)

\* the body of the try block of one loop iteration of fetch_defense_stocks_data
StockDataTry(ticker, info) ==
    IF "yf_error" \in DOMAIN info THEN Raise("Exception")
    ELSE LET current_price  == InfoGet(info, "currentPrice")
             previous_close == InfoGet(info, "previousClose")
         IN  IF current_price # Null /\ previous_close # Null
             THEN IF previous_close[1] = 0 THEN Raise("ZeroDivisionError")
                  ELSE Return([ticker |-> ticker,
                               current_price |-> current_price,
                               change_percent |->
                                   Some(FormatChange2f(current_price[1], previous_close[1])),
                               status |-> StatusOfSign(current_price[1] - previous_close[1])])
             ELSE Return([ticker |-> ticker,
                          current_price |-> current_price,
                          change_percent |-> Null,
                          status |-> "unknown"])

\* one loop iteration of fetch_defense_stocks_data, except clause included
StockDataFor(ticker, info) ==
    LET r == StockDataTry(ticker, info)
    IN  IF Raised(r)
        THEN [ticker |-> ticker, current_price |-> Null,
              change_percent |-> Null, status |-> "error"]
        ELSE r.value

\* stocks.py fetch_defense_stocks_data, given what yfinance answers per ticker
fetch_defense_stocks_data(yf) ==
    [i \in TickerIdx |-> StockDataFor(DEFENSE_TICKERS[i], yf[i])]

\* the body of the try block of one iteration of the older fetch: no status
LegacyStockTry(ticker, info) ==
    LET r == StockDataTry(ticker, info)
    IN  IF Raised(r) THEN r
        ELSE Return([ticker |-> ticker,
                     current_price |-> r.value.current_price,
                     change_percent |-> r.value.change_percent])

\* defense_stocks.py get_defense_stocks_data.  The except clause prints to
\* sys.stderr, and sys is imported only under __main__: when the module is
\* imported (as app.py does) the clause itself raises NameError.
RECURSIVE LegacyLoop(_, _, _, _)
LegacyLoop(yf, i, data, sys_imported) ==
    IF i > Len(DEFENSE_TICKERS) THEN Return(data)
    ELSE LET r == LegacyStockTry(DEFENSE_TICKERS[i], yf[i])
         IN  IF Raised(r)
             THEN IF sys_imported THEN LegacyLoop(yf, i + 1, data, sys_imported)
                  ELSE Raise("NameError")
             ELSE LegacyLoop(yf, i + 1, Append(data, r.value), sys_imported)

defense_stocks_get_defense_stocks_data(yf, sys_imported) ==
    LegacyLoop(yf, 1, <<>>, sys_imported)

\* [c.change_percent for c in stocks if c.change_percent is not None]
RECURSIVE ValidChanges(_)
ValidChanges(stocks) ==
    IF stocks = <<>> THEN <<>>
    ELSE IF Head(stocks).change_percent # Null
         THEN <<Head(stocks).change_percent[1]>> \o ValidChanges(Tail(stocks))
         ELSE ValidChanges(Tail(stocks))

\* the statistics dict of update_stocks_data (hundredths of a percent)
StocksStatistics(stocks_list) ==
    LET valid_changes == ValidChanges(stocks_list)
        n == Len(valid_changes)
    IN  [average_change_percent |->
             IF n > 0 THEN RoundHalfEven(SumSeq(valid_changes), n) ELSE 0,
         max_change_percent |-> IF n > 0 THEN MaxSeq(valid_changes) ELSE 0,
         min_change_percent |-> IF n > 0 THEN MinSeq(valid_changes) ELSE 0,
         stocks_analyzed |-> Len(stocks_list),
         valid_data_points |-> n]

\* a summary whose trend test is >= 0
StocksMarketSummaryNonNegative(stocks_list) ==
    LET valid_changes == ValidChanges(stocks_list)
        n == Len(valid_changes)
        max_change == IF n > 0 THEN MaxSeq(valid_changes) ELSE 0
        min_change == IF n > 0 THEN MinSeq(valid_changes) ELSE 0
    IN  [overall_trend |->
             IF n = 0 \/ SumSeq(valid_changes) >= 0 THEN "bullish" ELSE "bearish",
         volatility |-> Abs(max_change - min_change)]

\* the market_summary dict of update_stocks_data
StocksMarketSummary(stocks_list) ==
    LET valid_changes == ValidChanges(stocks_list)
        n == Len(valid_changes)
        max_change == IF n > 0 THEN MaxSeq(valid_changes) ELSE 0
        min_change == IF n > 0 THEN MinSeq(valid_changes) ELSE 0
    IN  [overall_trend |->
             IF n > 0 /\ SumSeq(valid_changes) > 0 THEN "bullish" ELSE "bearish",
         volatility |-> Abs(max_change - min_change)]

\* the StocksAnalysis object update_stocks_data builds before it assigns it
StocksAnalysis(yf, timestamp) ==
    LET stocks_list == fetch_defense_stocks_data(yf)
    IN  [timestamp |-> timestamp,
         stocks |-> stocks_list,
         statistics |-> StocksStatistics(stocks_list),
         market_summary |-> StocksMarketSummary(stocks_list)]

(***************************************************************************)
(* The wall clock.  now counts hours; hour 0 is 00:00 on a Sunday.         *)
(***************************************************************************)
Weekdays ==
    <<"Sunday", "Monday", "Tuesday", "Wednesday", "Thursday", "Friday", "Saturday">>

\* datetime.now().hour
HourOf(t) == t % 24

\* datetime.now().strftime("%A")
DayNameOf(t) == Weekdays[((t \div 24) % 7) + 1]

\* datetime.now().strftime('%Y-%m-%d'), as a day number
DateOf(t) == t \div 24

(***************************************************************************)
(* Venues feed: pizza.py update_pentagon_pizza_data and the older          *)
(* app.py get_pentagon_pizza_data.  A place is the dict populartimes       *)
(* returns; the fields the code only copies through with place.get         *)
(* (coordinates, rating, rating_n, time_wait, time_spent) are left out.    *)
(***************************************************************************)
\* "pizza" in s.lower(), over the strings the model uses
ContainsPizza(s) ==
    s \in {"Pizza Hut", "Joe's PIZZA", "Pizza Boli's", "Pentagon Pizza", "We, The Pizza",
           "pizza_restaurant"}

RECURSIVE AnyContainsPizza(_)
AnyContainsPizza(types) ==
    IF types = <<>> THEN FALSE
    ELSE ContainsPizza(Head(types)) \/ AnyContainsPizza(Tail(types))

is_pizza_place(place) ==
    \/ "types" \in DOMAIN place /\ AnyContainsPizza(place.types)
    \/ "name" \in DOMAIN place /\ ContainsPizza(place.name)

\* [place for place in results if is_pizza_place(place)]
RECURSIVE FilterPizza(_)
FilterPizza(results) ==
    IF results = <<>> THEN <<>>
    ELSE IF is_pizza_place(Head(results))
         THEN <<Head(results)>> \o FilterPizza(Tail(results))
         ELSE FilterPizza(Tail(results))

\* the loop over place_types: pt.restaurant and pt.meal_takeaway are what
\* populartimes.get answers for each type, a raise or a list
FetchPlaces(pt) ==
    IF Raised(pt.restaurant) THEN pt.restaurant
    ELSE IF Raised(pt.meal_takeaway) THEN pt.meal_takeaway
    ELSE Return(FilterPizza(pt.restaurant.value) \o FilterPizza(pt.meal_takeaway.value))

\* a key that ignores the address
PlaceKeyNameOnly(place) == <<place.name>>

\* key = (place["name"], place["address"])
PlaceKey(place) == <<place.name, place.address>>

\* the de-duplication loop; place["name"] / place["address"] raise KeyError
RECURSIVE UniquePlaces(_, _, _)
UniquePlaces(places, seen, unique_places) ==
    IF places = <<>> THEN Return(unique_places)
    ELSE LET place == Head(places)
         IN  IF ~({"name", "address"} \subseteq DOMAIN place) THEN Raise("KeyError")
             ELSE LET key == PlaceKey(place)
                  IN  IF key \notin seen
                      THEN UniquePlaces(Tail(places), seen \cup {key},
                                        Append(unique_places, place))
                      ELSE UniquePlaces(Tail(places), seen, unique_places)

\* the loop that looks the current hour up in the place's own table
RECURSIVE TypicalPopularity(_, _, _)
TypicalPopularity(days, current_hour, current_day) ==
    IF days = <<>> THEN Return(0)
    ELSE IF Head(days).name = current_day
         THEN IF current_hour + 1 \in DOMAIN Head(days).data
              THEN Return(Head(days).data[current_hour + 1])
              ELSE Raise("IndexError")
         ELSE TypicalPopularity(Tail(days), current_hour, current_day)

\* data.index(x): the first position of x, counted from 1
RECURSIVE FirstIndexOf(_, _, _)
FirstIndexOf(data, x, i) == IF data[i] = x THEN i ELSE FirstIndexOf(data, x, i + 1)

\* day["data"].index(max(day["data"])): the first position of the maximum
PeakHour(data) == FirstIndexOf(data, MaxSeq(data), 1) - 1

\* weekly_schedule, as the list of its entries; max() of an empty table raises
WeeklySchedule(days) ==
    IF \E i \in DOMAIN days : days[i].data = <<>> THEN Raise("ValueError")
    ELSE Return([i \in DOMAIN days |->
                    [name |-> days[i].name,
                     hourly_data |-> days[i].data,
                     peak_hour |-> PeakHour(days[i].data),
                     peak_popularity |-> MaxSeq(days[i].data)]])

\* round(busyness_ratio, 2), in hundredths
BusynessRatio(current_popularity, typical_popularity) ==
    IF typical_popularity > 0
    THEN RoundHalfEven(current_popularity * 100, typical_popularity)
    ELSE 100

\* round((busyness_ratio - 1) * 100, 1), in tenths of a percent
PercentDifference(current_popularity, typical_popularity) ==
    IF typical_popularity > 0
    THEN RoundHalfEven((current_popularity - typical_popularity) * 1000, typical_popularity)
    ELSE 0

\* the status string both venue builders store on the record
PlaceStatus(percent_difference) ==
    IF percent_difference > 0 THEN "busier"
    ELSE IF percent_difference < 0 THEN "less busy" ELSE "typical"

\* the body of the scoring loop for one place that has current_popularity
PlaceData(place, current_hour, current_day) ==
    IF "populartimes" \notin DOMAIN place THEN Raise("KeyError")
    ELSE LET typical == TypicalPopularity(place.populartimes, current_hour, current_day)
             weekly  == WeeklySchedule(place.populartimes)
         IN  IF Raised(typical) THEN typical
             ELSE IF Raised(weekly) THEN weekly
             ELSE LET percent_difference ==
                          PercentDifference(place.current_popularity, typical.value)
                  IN  Return(
                        [name |-> place.name,
                         address |-> place.address,
                         current_status |->
                            [current_popularity |-> place.current_popularity,
                             typical_popularity |-> typical.value,
                             busyness_ratio |->
                                 BusynessRatio(place.current_popularity, typical.value),
                             percent_difference |-> percent_difference,
                             status |-> PlaceStatus(percent_difference)],
                         place_types |->
                             IF "types" \in DOMAIN place THEN place.types ELSE <<>>,
                         weekly_popularity |-> weekly.value])

\* the scoring loop over unique_places
RECURSIVE BusyPlaces(_, _, _, _)
BusyPlaces(unique_places, busy_places, current_hour, current_day) ==
    IF unique_places = <<>> THEN Return(busy_places)
    ELSE LET place == Head(unique_places)
         IN  IF "current_popularity" \in DOMAIN place
             THEN LET d == PlaceData(place, current_hour, current_day)
                  IN  IF Raised(d) THEN d
                      ELSE BusyPlaces(Tail(unique_places), Append(busy_places, d.value),
                                      current_hour, current_day)
             ELSE BusyPlaces(Tail(unique_places), busy_places, current_hour, current_day)

\* a sort key that leaves the sign in
UnusualnessSigned(x) == x.current_status.percent_difference

\* key=lambda x: abs(x.current_status.percent_difference)
Unusualness(x) == Abs(x.current_status.percent_difference)

\* list.sort(key=abs(percent_difference), reverse=True): stable, descending
RECURSIVE InsertByUnusualness(_, _)
InsertByUnusualness(sorted, x) ==
    IF sorted = <<>> THEN <<x>>
    ELSE IF Unusualness(Head(sorted)) >= Unusualness(x)
         THEN <<Head(sorted)>> \o InsertByUnusualness(Tail(sorted), x)
         ELSE <<x>> \o sorted

RECURSIVE SortByUnusualness(_)
SortByUnusualness(busy_places) ==
    IF busy_places = <<>> THEN <<>>
    ELSE InsertByUnusualness(SortByUnusualness(SubSeq(busy_places, 1, Len(busy_places) - 1)),
                             busy_places[Len(busy_places)])

PizzaMetadata(t, total, with_data) ==
    [timestamp |-> t,
     current_time |-> HourOf(t),
     current_day |-> DayNameOf(t),
     total_pizza_places_found |-> total,
     places_with_current_data |-> with_data]

\* everything both venue builders do between the fetch and the return
PizzaTry(pt, t) ==
    LET places == FetchPlaces(pt)
    IN  IF Raised(places) THEN places
        ELSE LET unique_places == UniquePlaces(places.value, {}, <<>>)
             IN  IF Raised(unique_places) THEN unique_places
                 ELSE LET busy_places ==
                              BusyPlaces(unique_places.value, <<>>, HourOf(t), DayNameOf(t))
                      IN  IF Raised(busy_places) THEN busy_places
                          ELSE Return(
                                [metadata |-> PizzaMetadata(t, Len(unique_places.value),
                                                            Len(busy_places.value)),
                                 pizza_places |-> SortByUnusualness(busy_places.value)])

\* app.py get_pentagon_pizza_data: no try, an exception reaches the caller
app_get_pentagon_pizza_data(pt, t) == PizzaTry(pt, t)

\* an except clause that clears the slot instead
EmptyPizzaAnalysisNone(t) == None

\* the object the except clause of update_pentagon_pizza_data builds
EmptyPizzaAnalysis(t) ==
    [metadata |-> PizzaMetadata(t, 0, 0), pizza_places |-> <<>>]

\* pizza.py update_pentagon_pizza_data: the PizzaAnalysis it assigns to the
\* module-level slot, on the normal path and on the except path
PizzaAnalysis(pt, t) ==
    LET r == PizzaTry(pt, t)
    IN  IF Raised(r) THEN EmptyPizzaAnalysis(t) ELSE r.value

(***************************************************************************)
(* News feed: news.py (pydantic models, no file cache) and the older       *)
(* news_analysis.py (plain dicts, headlines cached in a JSON file).        *)
(* variant is "news" or "news_analysis".  An upstream article is a dict    *)
(* with keys url, title, description; publishedAt and source are copied    *)
(* through and left out.  A JSON null in a string field is NoneStr.        *)
(***************************************************************************)
NoneStr == "None"

\* s.strip() == "" over the strings the model uses
IsBlank(str) == str \in {"", " "}

\* a cut that tests the length with > instead of >=
MaxHeadlinesOffByOne == 20 + 1

\* the accepted list is cut at this length
MaxHeadlines == 20

\* article['description'] or ''
SummaryOf(article) ==
    IF article.description \in {NoneStr, ""} THEN "" ELSE article.description

\* the dict or Article the loop body builds from one upstream article; the
\* pydantic Article of news.py rejects a null title or link
CleanArticle(article, variant) ==
    IF variant = "news" /\ (article.title = NoneStr \/ article.url = NoneStr)
    THEN Raise("ValidationError")
    ELSE Return([title |-> article.title, summary |-> SummaryOf(article),
                 link |-> article.url])

\* the for loop of fetch_fresh_headlines
RECURSIVE HeadlinesLoop(_, _, _, _)
HeadlinesLoop(upstream, articles, seen_urls, variant) ==
    IF upstream = <<>> THEN Return(articles)
    ELSE LET article == Head(upstream)
         IN  IF "url" \notin DOMAIN article THEN Raise("KeyError")
             ELSE IF article.url \in seen_urls
                  THEN HeadlinesLoop(Tail(upstream), articles, seen_urls, variant)
                  ELSE LET clean_article == CleanArticle(article, variant)
                       IN  IF Raised(clean_article) THEN clean_article
                           ELSE IF Len(articles) + 1 >= MaxHeadlines
                                THEN Return(Append(articles, clean_article.value))
                                ELSE HeadlinesLoop(Tail(upstream),
                                                   Append(articles, clean_article.value),
                                                   seen_urls \cup {article.url}, variant)

\* fetch_fresh_headlines of either module.  key_set: NEWSAPI_KEY is set;
\* response: what the request yields, [net_error |-> TRUE] when requests.get
\* or raise_for_status raises, else the JSON body [status, articles].
fetch_fresh_headlines(key_set, response, variant) ==
    IF ~key_set THEN Raise("ValueError")
    ELSE IF "net_error" \in DOMAIN response THEN Return(<<>>)
    ELSE IF response.status # "ok" THEN Return(<<>>)
    ELSE LET r == HeadlinesLoop(response.articles, <<>>, {}, variant)
         IN  IF Raised(r) THEN Return(<<>>) ELSE r

\* a cache that still serves an entry exactly twelve hours old
CacheMaxAgeOffByOne == 12 + 1

\* the hours a cached entry stays usable: 43200 seconds
CacheMaxAgeHours == 12

\* news_analysis.py get_news, called without target_date as its one caller
\* does: [result, cache, fetched], the value returned (or the exception
\* raised), the cache file afterwards, and whether upstream was called
get_news(cache, t, key_set, response) ==
    LET date_str == DateOf(t)
    IN  IF date_str \in DOMAIN cache /\ t - cache[date_str].timestamp < CacheMaxAgeHours
        THEN [result |-> Return(cache[date_str].headlines), cache |-> cache,
              fetched |-> FALSE]
        ELSE LET articles == fetch_fresh_headlines(key_set, response, "news_analysis")
             IN  IF Raised(articles)
                 THEN [result |-> articles, cache |-> cache, fetched |-> TRUE]
                 ELSE IF articles.value # <<>>
                      THEN [result |-> articles,
                            cache |-> [d \in DOMAIN cache \cup {date_str} |->
                                          IF d = date_str
                                          THEN [timestamp |-> t, headlines |-> articles.value]
                                          ELSE cache[d]],
                            fetched |-> TRUE]
                      ELSE [result |-> articles, cache |-> cache, fetched |-> TRUE]

\* severities are kept in ten-thousandths: 10000 is severity 1.0
SeverityOne == 10000

ErrorAnalysis == [severity |-> 0, explanation |-> "Error in analysis"]

\* analyze_with_gpt.  gpt is what the completion call yields for one text:
\* [gpt_error |-> TRUE] when the call raises or its content is not JSON,
\* else the parsed dict, whose severity may be missing, out of [0,1], or
\* not a number (then it is the field severity_text).
analyze_with_gpt(gpt, variant) ==
    IF "gpt_error" \in DOMAIN gpt THEN ErrorAnalysis
    ELSE IF "explanation" \notin DOMAIN gpt THEN ErrorAnalysis
    ELSE IF "severity" \in DOMAIN gpt
         THEN IF variant = "news" /\ (gpt.severity < 0 \/ gpt.severity > SeverityOne)
              THEN ErrorAnalysis
              ELSE [severity |-> gpt.severity, explanation |-> gpt.explanation]
    ELSE IF "severity_text" \in DOMAIN gpt
         THEN IF variant = "news" THEN ErrorAnalysis
              ELSE [severity_text |-> gpt.severity_text, explanation |-> gpt.explanation]
    ELSE ErrorAnalysis

\* not f"{title} {summary}".strip()
EmptyText(article) == IsBlank(article.title) /\ IsBlank(article.summary)

\* the scoring loop: [results, total_severity], or the TypeError that
\* total_severity += analysis['severity'] raises on a non-number
RECURSIVE ScoreArticles(_, _, _, _, _, _)
ScoreArticles(articles, gpt, i, results, total_severity, variant) ==
    IF i > Len(articles) THEN Return([results |-> results, total_severity |-> total_severity])
    ELSE IF EmptyText(articles[i])
         THEN ScoreArticles(articles, gpt, i + 1, results, total_severity, variant)
         ELSE LET analysis == analyze_with_gpt(gpt[i], variant)
                  result == [title |-> articles[i].title, analysis |-> analysis,
                             link |-> articles[i].link]
              IN  IF "severity" \notin DOMAIN analysis THEN Raise("TypeError")
                  ELSE ScoreArticles(articles, gpt, i + 1, Append(results, result),
                                     total_severity + analysis.severity, variant)

BusinessAsUsual == "Business as usual - no significant global threats detected"

Concerning == "Some concerning developments, but nothing civilization-threatening"

MultipleChallenges == "Multiple serious global challenges present"

HighInstability == "High level of global instability - multiple severe threats active"

ExtremeAlert == "EXTREME ALERT: Multiple potential civilization-threatening events detected"

\* a banding whose comparisons include the upper bound
interpret_probability_inclusive(probability) ==
    IF probability <= 2000 THEN BusinessAsUsual
    ELSE IF probability <= 4000 THEN Concerning
    ELSE IF probability <= 6000 THEN MultipleChallenges
    ELSE IF probability <= 8000 THEN HighInstability
    ELSE ExtremeAlert

\* interpret_probability, on a probability in hundredths of a percent
interpret_probability(probability) ==
    IF probability < 2000 THEN BusinessAsUsual
    ELSE IF probability < 4000 THEN Concerning
    ELSE IF probability < 6000 THEN MultipleChallenges
    ELSE IF probability < 8000 THEN HighInstability
    ELSE ExtremeAlert

NoArticlesMessage == "Unable to assess - no news articles found"

\* what update_news and calculate_doomsday_probability do once they hold the
\* article list; doomsday_probability is in hundredths of a percent
DoomsdayAnalysis(articles, gpt, t, variant) ==
    IF articles = <<>>
    THEN Return([timestamp |-> t, doomsday_probability |-> 0, analysis_basis |-> 0,
                 detailed_results |-> <<>>, interpretation |-> NoArticlesMessage])
    ELSE LET scored == ScoreArticles(articles, gpt, 1, <<>>, 0, variant)
         IN  IF Raised(scored) THEN scored
             ELSE LET results == scored.value.results
                      doomsday_probability ==
                          IF results # <<>>
                          THEN RoundHalfEven(scored.value.total_severity, Len(results))
                          ELSE 0
                  IN  Return([timestamp |-> t,
                              doomsday_probability |-> doomsday_probability,
                              analysis_basis |-> Len(results),
                              detailed_results |-> results,
                              interpretation |-> interpret_probability(doomsday_probability)])

\* news.py update_news
update_news(key_set, response, gpt, t) ==
    LET articles == fetch_fresh_headlines(key_set, response, "news")
    IN  IF Raised(articles) THEN articles
        ELSE DoomsdayAnalysis(articles.value, gpt, t, "news")

\* news_analysis.py calculate_doomsday_probability: [result, cache]
calculate_doomsday_probability(cache, t, key_set, response, gpt) ==
    LET news == get_news(cache, t, key_set, response)
    IN  [result |-> IF Raised(news.result) THEN news.result
                    ELSE DoomsdayAnalysis(news.result.value, gpt, t, "news_analysis"),
         cache |-> news.cache]

(***************************************************************************)
(* app.py: the /update handler get_analysis and what it calls              *)
(***************************************************************************)
Buckets == {"very_busy", "busy", "typical", "quiet", "very_quiet"}

\* a classification whose comparisons include the threshold
BucketOfInclusive(percent_diff) ==
    IF percent_diff >= 500 THEN "very_busy"
    ELSE IF percent_diff >= 200 THEN "busy"
    ELSE IF percent_diff <= -500 THEN "very_quiet"
    ELSE IF percent_diff <= -200 THEN "quiet"
    ELSE "typical"

\* the if/elif chain of calculate_pizza_status_distribution, on a
\* percent_difference in tenths of a percent
BucketOf(percent_diff) ==
    IF percent_diff > 500 THEN "very_busy"
    ELSE IF percent_diff > 200 THEN "busy"
    ELSE IF percent_diff < -500 THEN "very_quiet"
    ELSE IF percent_diff < -200 THEN "quiet"
    ELSE "typical"

\* the loop of calculate_pizza_status_distribution: the names per bucket
RECURSIVE Distribute(_, _)
Distribute(places, distribution) ==
    IF places = <<>> THEN distribution
    ELSE LET place == Head(places)
             b == BucketOf(place.current_status.percent_difference)
         IN  Distribute(Tail(places),
                        [distribution EXCEPT ![b] = Append(@, place.name)])

calculate_pizza_status_distribution(places) ==
    LET distribution == Distribute(places, [b \in Buckets |-> <<>>])
    IN  [counts |-> [b \in Buckets |-> Len(distribution[b])],
         places |-> distribution,
         summary |->
            [total_unusually_busy |->
                 Len(distribution["very_busy"]) + Len(distribution["busy"]),
             total_unusually_quiet |->
                 Len(distribution["very_quiet"]) + Len(distribution["quiet"]),
             total_typical |-> Len(distribution["typical"])]]

SeverityLevels == {"low", "medium", "high", "critical"}

\* the if/elif chain of calculate_severity_distribution (ten-thousandths)
SeverityLevelOf(severity) ==
    IF severity <= 2500 THEN "low"
    ELSE IF severity <= 5000 THEN "medium"
    ELSE IF severity <= 7500 THEN "high"
    ELSE "critical"

\* calculate_severity_distribution; percentages in hundredths of a percent
calculate_severity_distribution(articles) ==
    LET count(level) ==
            Cardinality({i \in DOMAIN articles :
                            SeverityLevelOf(articles[i].analysis.severity) = level})
        total == Len(articles)
    IN  [counts |-> [level \in SeverityLevels |-> count(level)],
         percentages |->
            [level \in SeverityLevels |->
                IF total > 0 THEN RoundHalfEven(count(level) * 10000, total) ELSE 0]]

\* the document id save_to_firebase derives from the payload's timestamp
DocId(timestamp) == <<"analyses", timestamp>>

\* doc_ref.set(data): the document stored under id is replaced
SetDoc(docs, id, data) ==
    {d \in docs : d.id # id} \cup {[id |-> id, data |-> data]}

\* save_to_firebase.  store tells how the store answers: "ok", "down" (the
\* first write raises) or "down_after_first" (the write of 'latest' raises).
save_to_firebase(store, data, store_answer) ==
    IF store_answer = "down"
    THEN [result |-> Raise("HTTPException"), store |-> store]
    ELSE LET written == [store EXCEPT !.docs = SetDoc(@, DocId(data.metadata.timestamp), data)]
         IN  IF store_answer = "down_after_first"
             THEN [result |-> Raise("HTTPException"), store |-> written]
             ELSE [result |-> Return(DocId(data.metadata.timestamp)),
                   store |-> [written EXCEPT !.latest = data]]

\* raise HTTPException(status_code=..., detail=...)
HTTPException(status_code, detail) ==
    [raised |-> "HTTPException", status_code |-> status_code, detail |-> detail]

\* the try block of get_latest_from_firebase: doc_ref.get() raises when the
\* store is down; a missing document raises the 404 inside the try block
GetLatestTry(store, store_answer) ==
    IF store_answer = "down" THEN Raise("GoogleAPIError")
    ELSE IF store.latest # None THEN Return(store.latest)
    ELSE HTTPException(404, "No analysis data found")

\* get_latest_from_firebase: `except Exception` catches whatever the try
\* block raised, an HTTPException included, and raises a 500
get_latest_from_firebase(store, store_answer) ==
    LET r == GetLatestTry(store, store_answer)
    IN  IF Raised(r) THEN HTTPException(500, "Failed to read from Firebase") ELSE r

\* read_latest_analysis, the /read handler: again `except Exception` and 500
read_latest_analysis(store, store_answer) ==
    LET r == get_latest_from_firebase(store, store_answer)
    IN  IF Raised(r) THEN HTTPException(500, r.detail) ELSE r

\* the status expression of detailed_stocks_data: comparing None raises
RECURSIVE DetailedStocksData(_)
DetailedStocksData(stocks) ==
    IF stocks = <<>> THEN Return(<<>>)
    ELSE IF Head(stocks).change_percent = Null THEN Raise("TypeError")
    ELSE LET rest == DetailedStocksData(Tail(stocks))
         IN  IF Raised(rest) THEN rest
             ELSE Return(<<[ticker |-> Head(stocks).ticker,
                            current_price |-> Head(stocks).current_price,
                            change_percent |-> Head(stocks).change_percent,
                            status |-> StatusOfSign(Head(stocks).change_percent[1])]>>
                         \o rest.value)

\* the response_data dict get_analysis builds from the three results
ResponseData(stocks, news_results, pizza, t) ==
    LET detailed == DetailedStocksData(stocks)
    IN  IF Raised(detailed) THEN detailed
        ELSE Return(
          [metadata |-> [timestamp |-> t, analysis_time |-> t],
           defense_stocks_analysis |->
              [statistics |->
                   [average_change_percent |-> StocksStatistics(stocks).average_change_percent,
                    max_change_percent |-> StocksStatistics(stocks).max_change_percent,
                    min_change_percent |-> StocksStatistics(stocks).min_change_percent,
                    stocks_analyzed |-> Len(stocks)],
               market_summary |-> StocksMarketSummary(stocks),
               detailed_stocks_data |-> detailed.value],
           news_analysis |->
              [doomsday_metrics |->
                   [probability |-> news_results.doomsday_probability,
                    analysis_basis |-> news_results.analysis_basis,
                    interpretation |-> news_results.interpretation],
               articles |-> news_results.detailed_results,
               severity_distribution |->
                   calculate_severity_distribution(news_results.detailed_results)],
           local_pizza_analysis |->
              [metadata |-> pizza.metadata,
               places_by_status |-> calculate_pizza_status_distribution(pizza.pizza_places),
               detailed_places |-> pizza.pizza_places]])

\* get_analysis, the /update handler: [result, cache, store].  Its one try
\* block turns every exception into HTTPException(500); the cache file keeps
\* what get_news wrote before a later step raised.  app.py imports
\* defense_stocks, so sys is not imported in that module.
get_analysis(cache, store, t, yf, key_set, response, gpt, pt, store_answer) ==
    LET stocks == defense_stocks_get_defense_stocks_data(yf, FALSE)
        news == calculate_doomsday_probability(cache, t, key_set, response, gpt)
        pizza == app_get_pentagon_pizza_data(pt, t)
        failed(c) == [result |-> Raise("HTTPException"), cache |-> c, store |-> store]
    IN  IF Raised(stocks) THEN failed(cache)
        ELSE IF Raised(news.result) THEN failed(news.cache)
        ELSE IF Raised(pizza) THEN failed(news.cache)
        ELSE LET response_data ==
                     ResponseData(stocks.value, news.result.value, pizza.value, t)
             IN  IF Raised(response_data) THEN failed(news.cache)
                 ELSE LET saved == save_to_firebase(store, response_data.value, store_answer)
                      IN  [result |-> IF Raised(saved.result) THEN Raise("HTTPException")
                                      ELSE response_data,
                           cache |-> news.cache,
                           store |-> saved.store]

(***************************************************************************)
(* What populartimes can answer                                            *)
(***************************************************************************)
HoursPerDay == 24

FlatWeek ==
    [i \in DOMAIN Weekdays |->
        [name |-> Weekdays[i], data |-> [h \in 1..HoursPerDay |-> 50]]]

\* a table that lists the first day only
SundayOnly == SubSeq(FlatWeek, 1, 1)

PizzaHut(current_popularity, populartimes) ==
    [name |-> "Pizza Hut", address |-> "1000 Army Navy Dr",
     types |-> <<"restaurant", "food">>,
     current_popularity |-> current_popularity, populartimes |-> populartimes]

Joes(current_popularity, populartimes) ==
    [name |-> "Joe's PIZZA", address |-> "23rd St S",
     types |-> <<"meal_takeaway">>,
     current_popularity |-> current_popularity, populartimes |-> populartimes]

\* a pizza place for which populartimes has no live reading
NoLivePlace ==
    [name |-> "Pizza Boli's", address |-> "Columbia Pike",
     types |-> <<"pizza_restaurant">>, populartimes |-> SundayOnly]

\* a pizza place whose dict lacks the address key
NoAddressPlace ==
    [name |-> "Pizza Hut", types |-> <<"restaurant">>,
     current_popularity |-> 80, populartimes |-> SundayOnly]

BurgerPlace ==
    [name |-> "Five Guys", address |-> "Crystal Dr", types |-> <<"restaurant">>,
     current_popularity |-> 90, populartimes |-> SundayOnly]

\* a weekly table that lists the given days, each with len hourly entries v
Table(days, len, v) ==
    [i \in DOMAIN days |-> [name |-> days[i], data |-> [h \in 1..len |-> v]]]

\* the places a venue builder's query can list: the same name and address
\* with different readings, the same name at another address, a table that
\* lacks the current weekday, a table whose day is cut short, a place with
\* no live reading, one that is no pizza place, one without an address
PlaceCases ==
    { PizzaHut(80, Table(<<"Sunday", "Monday">>, HoursPerDay, 40)),
      PizzaHut(30, Table(<<"Sunday", "Monday">>, HoursPerDay, 40)),
      [PizzaHut(45, Table(<<"Sunday", "Monday">>, HoursPerDay, 40))
          EXCEPT !.address = "2450 Crystal Dr"],
      Joes(60, Table(<<"Monday">>, HoursPerDay, 50)),
      Joes(20, Table(<<"Sunday", "Monday">>, 2, 50)),
      NoLivePlace,
      BurgerPlace,
      NoAddressPlace }

\* at most this many places in the answer to the restaurant query
MaxPlaces == 2

\* what populartimes.get answers for the two place types
VenueInputs ==
    [restaurant : { Raise("Exception") } \cup
                  { Return(l) : l \in UNION { [1..n -> PlaceCases] : n \in 0..MaxPlaces } },
     meal_takeaway : { Raise("Exception"), Return(<<>>) } \cup
                     { Return(<<p>>) : p \in PlaceCases \ {BurgerPlace, NoLivePlace} }]

\* the times a venue builder runs at: Sunday 00:00, Sunday 13:00, Monday 13:00
VenueTimes == {0, 13, 37}

(***************************************************************************)
(* What NewsAPI and the classifier can answer                              *)
(***************************************************************************)
ArticleCases ==
    { [url |-> "https://n/war", title |-> "War declared", description |-> "Troops move"],
      [url |-> "https://n/cat", title |-> "Cat rescued", description |-> NoneStr],
      [url |-> "https://n/blank", title |-> "", description |-> NoneStr],
      [url |-> "https://n/war", title |-> "War declared - update", description |-> ""],
      [url |-> "https://n/untitled", title |-> NoneStr, description |-> "Video"] }

\* at most this many articles in one upstream page
MaxArticles == 2

ArticleLists == UNION { [1..n -> ArticleCases] : n \in 0..MaxArticles }

NewsResponses ==
    { [net_error |-> TRUE], [status |-> "error", articles |-> <<>>] }
    \cup { [status |-> "ok", articles |-> a] : a \in ArticleLists }

\* distinct links for the articles of a long page
Urls ==
    << "https://n/01", "https://n/02", "https://n/03", "https://n/04",
       "https://n/05", "https://n/06", "https://n/07", "https://n/08",
       "https://n/09", "https://n/10", "https://n/11", "https://n/12",
       "https://n/13", "https://n/14", "https://n/15", "https://n/16",
       "https://n/17", "https://n/18", "https://n/19", "https://n/20",
       "https://n/21", "https://n/22", "https://n/23", "https://n/24",
       "https://n/25" >>

\* at most this many articles in a long upstream page
MaxPage == 22

\* pages about as long as the cut: every article has a title and a link of
\* its own, except that the articles at the positions in D repeat the first
\* article's link
LongPages ==
    { [i \in 1..n |-> [url |-> Urls[IF i \in D THEN 1 ELSE i], title |-> "Headline",
                       description |-> "Text"]] :
        n \in (MaxHeadlines - 1)..MaxPage, D \in SUBSET {2, MaxHeadlines + 1} }

LongResponses == { [status |-> "ok", articles |-> a] : a \in LongPages }

GptCases ==
    { [gpt_error |-> TRUE], [severity_text |-> "high", explanation |-> "e"] }
    \cup { [severity |-> v, explanation |-> "e"] : v \in {0, 1999, 2000, 10000, 15000} }

\* what the classifier answers for the article at each position
GptInputs == [1..MaxArticles -> GptCases]

\* the highest probability: 100 percent, in hundredths
MaxProbability == 10000

\* the times the news calls are made at (hours 2 and 13 of day 0), and the
\* cache file they may find: none, an entry of the same day written at hour
\* 1 or 2, an entry of the day before written three hours before midnight,
\* or both
NewsTimes == {2, 13}

YesterdaysHeadlines ==
    <<[title |-> "Old news", summary |-> "Past", link |-> "https://n/old"]>>

CachedHeadlines ==
    <<[title |-> "Storm warning", summary |-> "Coast", link |-> "https://n/storm"]>>

NewsCacheInits ==
    { <<>> } \cup
    { [d \in {0} |-> [timestamp |-> ts, headlines |-> CachedHeadlines]] : ts \in {1, 2} }
    \cup
    { [d \in {-1} |-> [timestamp |-> -3, headlines |-> YesterdaysHeadlines]],
      [d \in {-1, 0} |-> IF d = 0 THEN [timestamp |-> 1, headlines |-> CachedHeadlines]
                         ELSE [timestamp |-> -3, headlines |-> YesterdaysHeadlines]] }

(***************************************************************************)
(* The cache slots: the module-level stocks_data and pizza_data, their     *)
(* update functions split at the one point another thread can observe      *)
(* (build the new object, then rebind the global), and the read accessors. *)
(*                                                                         *)
(* A task record is [pc, before, new, failed, published].  While a refresh  *)
(* is in flight, before is the slot when it began, new the object it built *)
(* and failed whether its fetch raised; once it has returned, new is the   *)
(* object it assigned and failed still tells how that refresh went.        *)
(* published: some refresh of the feed has completed.                      *)
(***************************************************************************)
MaxTime == 2

IdleTask == [pc |-> "idle", before |-> None, new |-> None,
             failed |-> FALSE, published |-> FALSE]

\* no second call of an update function is in flight
IdleRival == [feed |-> "none", pc |-> "idle", new |-> None, started |-> 0]

\* no object allocated yet: both globals are None (reference 0) and no reader
\* holds a reference
EmptyHeap == [objects |-> <<>>, stocks_ref |-> 0, pizza_ref |-> 0,
              held |-> [feed |-> "none", ref |-> 0, seen |-> None]]

\* the quote answers the cache specification draws from
CacheQuoteInputs ==
    { [i \in TickerIdx |-> NominalInfo],
      [i \in TickerIdx |-> IF i = 1 THEN [yf_error |-> TRUE] ELSE NominalInfo] }

\* the populartimes answers the cache specification draws from
CachePizzaInputs ==
    { [restaurant |-> Raise("Exception"), meal_takeaway |-> Return(<<>>)],
      [restaurant |-> Return(<<PizzaHut(80, SundayOnly), BurgerPlace>>),
       meal_takeaway |-> Return(<<Joes(60, SundayOnly), PizzaHut(80, SundayOnly),
                                  NoLivePlace>>)],
      [restaurant |-> Return(<<Joes(25, SundayOnly)>>),
       meal_takeaway |-> Return(<<NoAddressPlace>>)] }

\* a publish that updates the record list of the live object in place
PublishStocksInPlace(slot, new) ==
    IF slot = None THEN new ELSE [slot EXCEPT !.stocks = new.stocks]

\* the statement `stocks_data = StocksAnalysis(...)`: the global is rebound
\* to the new object
PublishStocks(slot, new) == new

\* the statement `pizza_data = PizzaAnalysis(...)`, on either path
PublishPizza(slot, new) == new

\* stocks.py get_defense_stocks_data
get_defense_stocks_data == stocks_data

\* pizza.py get_pentagon_pizza_data
get_pentagon_pizza_data == pizza_data

Tick ==
    /\ now < MaxTime
    /\ now' = now + 1
    /\ UNCHANGED <<stocks_data, stocks_task, pizza_data, pizza_task, read_result, appVars, auxVars>>

\* update_stocks_data up to the construction of the StocksAnalysis object
StocksBuild ==
    /\ stocks_task.pc = "idle"
    /\ \E yf \in CacheQuoteInputs :
         stocks_task' = [stocks_task EXCEPT !.pc = "publishing",
                                            !.before = stocks_data,
                                            !.new = StocksAnalysis(yf, now),
                                            !.failed = FALSE]
    /\ UNCHANGED <<now, stocks_data, pizza_data, pizza_task, read_result, appVars, auxVars>>

\* a publish that also resets the other feed's global
StocksPublishBoth ==
    /\ stocks_task.pc = "publishing"
    /\ stocks_data' = PublishStocks(stocks_data, stocks_task.new)
    /\ pizza_data' = None
    /\ stocks_task' = [stocks_task EXCEPT !.pc = "idle", !.before = None,
                                        !.published = TRUE]
    /\ UNCHANGED <<now, pizza_task, read_result, appVars, auxVars>>

\* the assignment to the global, and the return
StocksPublish ==
    /\ stocks_task.pc = "publishing"
    /\ stocks_data' = PublishStocks(stocks_data, stocks_task.new)
    /\ stocks_task' = [stocks_task EXCEPT !.pc = "idle", !.before = None,
                                        !.published = TRUE]
    /\ UNCHANGED <<now, pizza_data, pizza_task, read_result, appVars, auxVars>>

\* update_pentagon_pizza_data up to the construction of the PizzaAnalysis
\* object, in the try block or in the except clause
PizzaBuild ==
    /\ pizza_task.pc = "idle"
    /\ \E pt \in CachePizzaInputs :
         pizza_task' = [pizza_task EXCEPT !.pc = "publishing",
                                          !.before = pizza_data,
                                          !.new = PizzaAnalysis(pt, now),
                                          !.failed = Raised(PizzaTry(pt, now))]
    /\ UNCHANGED <<now, stocks_data, stocks_task, pizza_data, read_result, appVars, auxVars>>

PizzaPublish ==
    /\ pizza_task.pc = "publishing"
    /\ pizza_data' = PublishPizza(pizza_data, pizza_task.new)
    /\ pizza_task' = [pizza_task EXCEPT !.pc = "idle", !.before = None,
                                      !.published = TRUE]
    /\ UNCHANGED <<now, stocks_data, stocks_task, read_result, appVars, auxVars>>

ReadStocks ==
    /\ read_result' = [feed |-> "stocks", value |-> get_defense_stocks_data]
    /\ UNCHANGED <<now, stocks_data, stocks_task, pizza_data, pizza_task, appVars, auxVars>>

ReadPizza ==
    /\ read_result' = [feed |-> "pizza", value |-> get_pentagon_pizza_data]
    /\ UNCHANGED <<now, stocks_data, stocks_task, pizza_data, pizza_task, appVars, auxVars>>

(***************************************************************************)
(* A second caller.  update_stocks_data and update_pentagon_pizza_data take *)
(* no lock and test no flag: nothing in them keeps another thread from      *)
(* calling the function while a call is in flight.  rival is that second    *)
(* call, [feed, pc, new, started]; it keeps what it assigned after it       *)
(* returned.                                                               *)
(***************************************************************************)
RivalStocksBuild ==
    /\ rival.pc = "idle"
    /\ stocks_task.pc = "publishing"
    /\ \E yf \in CacheQuoteInputs :
         rival' = [feed |-> "stocks", pc |-> "publishing",
                   new |-> StocksAnalysis(yf, now), started |-> now]
    /\ UNCHANGED <<now, stocks_data, stocks_task, pizza_data, pizza_task, read_result,
                   appVars, heap>>

RivalPizzaBuild ==
    /\ rival.pc = "idle"
    /\ pizza_task.pc = "publishing"
    /\ \E pt \in CachePizzaInputs :
         rival' = [feed |-> "pizza", pc |-> "publishing",
                   new |-> PizzaAnalysis(pt, now), started |-> now]
    /\ UNCHANGED <<now, stocks_data, stocks_task, pizza_data, pizza_task, read_result,
                   appVars, heap>>

\* the second call's assignment to the global, and its return
RivalPublish ==
    /\ rival.pc = "publishing"
    /\ rival' = [rival EXCEPT !.pc = "idle"]
    /\ IF rival.feed = "stocks"
       THEN /\ stocks_data' = PublishStocks(stocks_data, rival.new)
            /\ UNCHANGED pizza_data
       ELSE /\ pizza_data' = PublishPizza(pizza_data, rival.new)
            /\ UNCHANGED stocks_data
    /\ UNCHANGED <<now, stocks_task, pizza_task, read_result, appVars, heap>>

(***************************************************************************)
(* Object identity.  heap.objects lists the StocksAnalysis and             *)
(* PizzaAnalysis objects allocated so far; a reference is a position in    *)
(* it, 0 for None.  heap.stocks_ref and heap.pizza_ref are what the        *)
(* globals are bound to, heap.held the reference a reader got from a read  *)
(* accessor together with what the object was when it got it.              *)
(***************************************************************************)
MaxObjects == 3

\* an assignment that overwrites the live object's fields instead
AssignStocksInPlace(h, new) ==
    IF h.stocks_ref = 0
    THEN [h EXCEPT !.objects = Append(@, new), !.stocks_ref = Len(h.objects) + 1]
    ELSE [h EXCEPT !.objects[h.stocks_ref] = new]

\* stocks_data = StocksAnalysis(...): a new object is allocated and the
\* global is bound to it
AssignStocks(h, new) ==
    [h EXCEPT !.objects = Append(@, new), !.stocks_ref = Len(h.objects) + 1]

\* pizza_data = PizzaAnalysis(...), in the try block or the except clause
AssignPizza(h, new) ==
    [h EXCEPT !.objects = Append(@, new), !.pizza_ref = Len(h.objects) + 1]

Deref(h, ref) == IF ref = 0 THEN None ELSE h.objects[ref]

\* one whole call of update_stocks_data
UpdateStocksData ==
    /\ Len(heap.objects) < MaxObjects
    /\ \E yf \in CacheQuoteInputs :
         LET h == AssignStocks(heap, StocksAnalysis(yf, now))
         IN  /\ heap' = h
             /\ stocks_data' = Deref(h, h.stocks_ref)
    /\ UNCHANGED <<now, stocks_task, pizza_data, pizza_task, read_result, appVars, rival>>

\* one whole call of update_pentagon_pizza_data
UpdatePentagonPizzaData ==
    /\ Len(heap.objects) < MaxObjects
    /\ \E pt \in CachePizzaInputs :
         LET h == AssignPizza(heap, PizzaAnalysis(pt, now))
         IN  /\ heap' = h
             /\ pizza_data' = Deref(h, h.pizza_ref)
    /\ UNCHANGED <<now, stocks_data, stocks_task, pizza_task, read_result, appVars, rival>>

\* a reader calls a read accessor and keeps the object it returns
HoldSnapshot ==
    /\ \E feed \in {"stocks", "pizza"} :
         LET ref == IF feed = "stocks" THEN heap.stocks_ref ELSE heap.pizza_ref
         IN  /\ heap' = [heap EXCEPT !.held = [feed |-> feed, ref |-> ref,
                                               seen |-> Deref(heap, ref)]]
             /\ read_result' = [feed |-> feed, value |-> Deref(heap, ref)]
    /\ UNCHANGED <<now, stocks_data, stocks_task, pizza_data, pizza_task, appVars, rival>>

(***************************************************************************)
(* What one /update request can meet                                       *)
(***************************************************************************)
VenueNames ==
    <<"Pizza Hut", "Joe's PIZZA", "Pizza Boli's", "Pentagon Pizza", "We, The Pizza">>

\* the venue at position i of an answer, with its live popularity
Venue(i, current_popularity) ==
    [name |-> VenueNames[i], address |-> "Crystal Dr", types |-> <<"restaurant">>,
     current_popularity |-> current_popularity, populartimes |-> FlatWeek]

\* live readings around the thresholds of a venue whose typical value is 50:
\* percent differences -52, -50, -22, -20, 0, 20, 22, 50, 52
PopularityCases == {24, 25, 39, 40, 50, 60, 61, 75, 76}

\* at most this many venues in one answer
MaxVenues == 3

VenueLists ==
    UNION { { [i \in 1..n |-> Venue(i, f[i])] : f \in [1..n -> PopularityCases] } :
            n \in 0..MaxVenues }

AppQuoteInputs ==
    CacheQuoteInputs \cup
    { [i \in TickerIdx |-> IF i = 3 THEN [previousClose |-> 90] ELSE NominalInfo] }

AppNewsInputs ==
    [key_set : BOOLEAN,
     response : { [net_error |-> TRUE] } \cup
                { [status |-> "ok", articles |-> a] :
                    a \in { a \in ArticleLists : Len(a) > 0 /\ a[1].title = "War declared"
                                                 /\ \A i \in DOMAIN a : i > 1 =>
                                                        a[i].title = "Cat rescued" } },
     gpt : { [i \in 1..MaxArticles |-> c] :
               c \in { [gpt_error |-> TRUE], [severity |-> 2000, explanation |-> "e"],
                       [severity_text |-> "high", explanation |-> "e"] } }]

StoreAnswers == {"ok", "down", "down_after_first"}

\* how the store answers a read
ReadAnswers == {"ok", "down"}

\* the payloads handed to save_to_firebase at time t, abridged to the
\* timestamp the document id is made of and the doomsday probability
SavePayloads(t) ==
    { [metadata |-> [timestamp |-> t, analysis_time |-> t],
       news_analysis |-> [doomsday_metrics |-> [probability |-> p]]] : p \in {0, 5000} }

(***************************************************************************)
(* Claims about the cache slots (SpecCache)                                *)
(***************************************************************************)
\* the snapshot the feed published last, as the task record remembers it
LastPublished(task) == IF task.pc = "idle" THEN task.new ELSE task.before

\* C1: when a refresh whose fetch raised completes, the feed's slot holds
\* exactly the value (and so the timestamp) it held when the refresh began.
C1_SlotUnchangedOnFetchError ==
    [][ /\ (stocks_task.pc = "publishing" /\ stocks_task.failed
              /\ stocks_task'.pc = "idle") => stocks_data' = stocks_task.before
        /\ (pizza_task.pc = "publishing" /\ pizza_task.failed
              /\ pizza_task'.pc = "idle") => pizza_data' = pizza_task.before ]_vars

\* C2: every read, however it interleaves with a publish, returns either the
\* whole object the slot held before the publish or the whole object the
\* refresh built: records and aggregates of one refresh cycle.
C2_ReadSeesPriorOrNew ==
    [][ /\ ReadStocks =>
             read_result'.value \in
                 IF stocks_task.pc = "publishing"
                 THEN {stocks_task.before, stocks_task.new} ELSE {stocks_task.new}
        /\ ReadPizza =>
             read_result'.value \in
                 IF pizza_task.pc = "publishing"
                 THEN {pizza_task.before, pizza_task.new} ELSE {pizza_task.new} ]_vars

\* C2 witness: a read made while a publish of a different object is in
\* flight returned the prior snapshot.
C2_Witness ==
    /\ stocks_task.pc = "publishing"
    /\ stocks_task.before # None
    /\ stocks_task.new # stocks_task.before
    /\ read_result = [feed |-> "stocks", value |-> stocks_task.before]

C25_OneWriterPerSlot ==
    [][ /\ stocks_data' # stocks_data =>
             stocks_task.pc = "publishing" /\ stocks_task'.pc = "idle"
        /\ pizza_data' # pizza_data =>
             pizza_task.pc = "publishing" /\ pizza_task'.pc = "idle"
        /\ stocks_task' # stocks_task => pizza_data' = pizza_data
        /\ pizza_task' # pizza_task => stocks_data' = stocks_data
        /\ (ReadStocks \/ ReadPizza) =>
             stocks_data' = stocks_data /\ pizza_data' = pizza_data ]_vars

\* C25 witness: the quotes feed has published over a venues snapshot that
\* is still in the venues slot, a failed venues refresh is in flight, and a
\* read of the quotes slot has returned.
C25_Witness ==
    /\ stocks_task.pc = "idle"
    /\ stocks_task.published
    /\ stocks_data = stocks_task.new
    /\ pizza_task.pc = "publishing"
    /\ pizza_task.failed
    /\ pizza_task.before # None
    /\ pizza_data = pizza_task.before
    /\ stocks_data.timestamp > pizza_data.metadata.timestamp
    /\ read_result = [feed |-> "stocks", value |-> stocks_data]

\* C13: the refreshes of one feed are strictly sequential: no two calls of
\* the feed's update function are in flight at once, and once both have
\* returned the slot holds what the call that started last assigned, never
\* the result of the older call.
C13_RefreshesOfAFeedAreSequential ==
    /\ ~(rival.pc = "publishing" /\ rival.feed = "stocks" /\ stocks_task.pc = "publishing")
    /\ ~(rival.pc = "publishing" /\ rival.feed = "pizza" /\ pizza_task.pc = "publishing")
    /\ (/\ rival.feed = "stocks" /\ rival.pc = "idle" /\ stocks_task.pc = "idle"
        /\ rival.started > stocks_task.new.timestamp) => stocks_data = rival.new
    /\ (/\ rival.feed = "pizza" /\ rival.pc = "idle" /\ pizza_task.pc = "idle"
        /\ rival.started > pizza_task.new.metadata.timestamp) => pizza_data = rival.new

\* C16: a published snapshot is immutable: a refresh leaves every object
\* allocated before it as it was and binds the slot to an object allocated
\* by that refresh, so the object a reader holds never changes.
C16_PublishedSnapshotNeverChanges ==
    [][ /\ \A ref \in DOMAIN heap.objects : heap'.objects[ref] = heap.objects[ref]
        /\ heap'.stocks_ref # heap.stocks_ref => heap'.stocks_ref \notin DOMAIN heap.objects
        /\ heap'.pizza_ref # heap.pizza_ref => heap'.pizza_ref \notin DOMAIN heap.objects
        /\ (heap.held.ref # 0 /\ heap'.held = heap.held) =>
               heap'.objects[heap.held.ref] = heap.held.seen ]_vars

\* C16 witness: a reader still holds the snapshot it read, unchanged, after
\* a later refresh of the feed has published a different one.
C16_Witness ==
    /\ heap.held.feed = "stocks"
    /\ heap.held.ref # 0
    /\ heap.stocks_ref # heap.held.ref
    /\ heap.objects[heap.held.ref] = heap.held.seen
    /\ heap.objects[heap.stocks_ref] # heap.held.seen
    /\ stocks_data = heap.objects[heap.stocks_ref]

(***************************************************************************)
(* Claims about the quote fetch (SpecQuotes)                               *)
(***************************************************************************)
\* the ticker's lookup raised, its price is missing, or its change cannot be
\* computed
QuoteUnavailable(info) ==
    \/ "yf_error" \in DOMAIN info
    \/ "currentPrice" \notin DOMAIN info
    \/ "previousClose" \in DOMAIN info /\ info.previousClose = 0

\* C4: whatever each ticker's lookup does, the quote fetch returns without
\* raising, with exactly one record per ticker of DEFENSE_TICKERS in list
\* order; a ticker whose price is missing or whose lookup failed has null
\* price and change and status unknown or error, and the record of a ticker
\* that answered normally is what it is when every ticker answers normally.
C4_QuoteFetchReturnsPartialResults ==
    call.fn \in {"fetch_defense_stocks_data", "defense_stocks.get_defense_stocks_data"} =>
        /\ ~Raised(call.result)
        /\ Len(call.result.value) = Len(DEFENSE_TICKERS)
        /\ \A i \in TickerIdx :
             LET rec == call.result.value[i]
             IN  /\ rec.ticker = DEFENSE_TICKERS[i]
                 /\ QuoteUnavailable(call.yf[i]) =>
                      /\ rec.current_price = Null
                      /\ rec.change_percent = Null
                      /\ "status" \in DOMAIN rec
                      /\ rec.status \in {"unknown", "error"}
                 /\ call.yf[i] = NominalInfo =>
                      /\ rec.current_price = Some(100)
                      /\ rec.change_percent = Some(1111)

\* C7: for every ticker whose current and previous prices are both present,
\* the published change is (current - previous) / previous * 100 rounded to
\* two decimals and the status is the sign of that published change:
\* increasing iff > 0, decreasing iff < 0, stable iff = 0.
C7_StatusMatchesPublishedChange ==
    call.fn = "fetch_defense_stocks_data" =>
        \A i \in TickerIdx :
            LET info == call.yf[i]
                rec  == call.result.value[i]
            IN  ({"currentPrice", "previousClose"} \subseteq DOMAIN info
                 /\ info.previousClose > 0) =>
                    /\ rec.change_percent =
                         Some(RoundHalfEven((info.currentPrice - info.previousClose) * PctScale,
                                            info.previousClose))
                    /\ rec.status = "increasing" <=> rec.change_percent[1] > 0
                    /\ rec.status = "decreasing" <=> rec.change_percent[1] < 0
                    /\ rec.status = "stable" <=> rec.change_percent[1] = 0

\* the sum of the non-null change_percent of the records from position i on
RECURSIVE SumChange(_, _)
SumChange(stocks, i) ==
    IF i > Len(stocks) THEN 0
    ELSE (IF stocks[i].change_percent = Null THEN 0 ELSE stocks[i].change_percent[1])
         + SumChange(stocks, i + 1)

\* C23: in every published quotes snapshot the statistics are computed over
\* exactly the records with non-null change_percent: average, max and min
\* are their mean, max and min (all 0 when there are none), so that
\* min <= average <= max, valid_data_points <= stocks_analyzed,
\* volatility = max - min >= 0, and overall_trend is bullish iff the mean is
\* > 0 (bearish when no ticker has data).
C23_StatisticsOverValidRecords ==
    call.fn = "update_stocks_data" =>
        LET a == call.result.value
            valid == {i \in DOMAIN a.stocks : a.stocks[i].change_percent # Null}
            n == Cardinality(valid)
            sum == SumChange(a.stocks, 1)
            st == a.statistics
        IN  /\ st.stocks_analyzed = Len(a.stocks)
            /\ st.valid_data_points = n
            /\ st.valid_data_points <= st.stocks_analyzed
            /\ n = 0 => /\ st.average_change_percent = 0
                        /\ st.max_change_percent = 0
                        /\ st.min_change_percent = 0
            /\ n > 0 => /\ st.average_change_percent = RoundHalfEven(sum, n)
                        /\ \A i \in valid :
                             /\ a.stocks[i].change_percent[1] <= st.max_change_percent
                             /\ a.stocks[i].change_percent[1] >= st.min_change_percent
                        /\ \E i \in valid :
                             a.stocks[i].change_percent[1] = st.max_change_percent
                        /\ \E i \in valid :
                             a.stocks[i].change_percent[1] = st.min_change_percent
            /\ st.min_change_percent <= st.average_change_percent
            /\ st.average_change_percent <= st.max_change_percent
            /\ a.market_summary.volatility = st.max_change_percent - st.min_change_percent
            /\ a.market_summary.volatility >= 0
            /\ a.market_summary.overall_trend \in {"bullish", "bearish"}
            /\ a.market_summary.overall_trend = "bullish" <=> (n > 0 /\ sum > 0)

\* C23 witness: a snapshot in which one ticker has no data, one fell far and
\* the others rose, published with a bearish trend.
C23_Witness ==
    /\ call.fn = "update_stocks_data"
    /\ call.result.value.statistics.valid_data_points = Len(DEFENSE_TICKERS) - 1
    /\ call.result.value.statistics.min_change_percent < 0
    /\ call.result.value.statistics.max_change_percent > 0
    /\ call.result.value.market_summary.overall_trend = "bearish"
    /\ stocks_data = call.result.value

(***************************************************************************)
(* Claims about the news feed (SpecNews)                                   *)
(***************************************************************************)
\* C5: fetch_fresh_headlines never raises to its caller: with NEWSAPI_KEY
\* unset, on a network failure and on every upstream answer it returns a
\* (possibly empty) list.
C5_FetchNeverRaises ==
    call.fn = "fetch_fresh_headlines" => ~Raised(call.result)

RECURSIVE SumSeverity(_)
SumSeverity(results) ==
    IF results = <<>> THEN 0
    ELSE Head(results).analysis.severity + SumSeverity(Tail(results))

\* C8: the aggregate doomsday_probability is round(mean(severity) * 100, 2)
\* over the scored items, and whenever no item is scored (no article, or
\* every article skipped for its empty text) it is exactly 0 and the
\* interpretation is the "no news articles found" message.
C8_ProbabilityIsRoundedMean ==
    (/\ call.fn \in {"update_news", "calculate_doomsday_probability"}
     /\ ~Raised(call.result)) =>
        LET analysis == call.result.value
            n == Len(analysis.detailed_results)
        IN  /\ n > 0 => analysis.doomsday_probability =
                           RoundHalfEven(SumSeverity(analysis.detailed_results), n)
            /\ n = 0 => /\ analysis.doomsday_probability = 0
                        /\ analysis.interpretation = NoArticlesMessage

\* C15: every severity of a published analysis lies in [0,1] and the
\* aggregate doomsday_probability lies in [0,100], whatever the classifier
\* returned.
C15_SeverityAndProbabilityInRange ==
    (/\ call.fn \in {"update_news", "calculate_doomsday_probability"}
     /\ ~Raised(call.result)) =>
        /\ \A i \in DOMAIN call.result.value.detailed_results :
             /\ call.result.value.detailed_results[i].analysis.severity >= 0
             /\ call.result.value.detailed_results[i].analysis.severity <= SeverityOne
        /\ call.result.value.doomsday_probability >= 0
        /\ call.result.value.doomsday_probability <= MaxProbability

\* the request was answered with a page of articles
PageAnswered ==
    /\ call.key_set
    /\ "articles" \in DOMAIN call.response
    /\ call.response.status = "ok"

Missing(str) == str \in {NoneStr, ""}

\* the positions of the page whose link no earlier position carries
FirstOfLink(upstream) ==
    {i \in DOMAIN upstream : \A m \in 1..(i - 1) : upstream[m].url # upstream[i].url}

\* the k-th smallest element of a set of positions
Nth(F, k) == CHOOSE i \in F : Cardinality({m \in F : m <= i}) = k

\* C17: the headline fetch returns at most 20 articles, no two with the same
\* link, and for a page whose articles all carry a title and a link the
\* result is the page without repeated links, cut to its first 20 entries,
\* in upstream order.
C17_AtMostTwentyDistinctInOrder ==
    (call.fn = "fetch_fresh_headlines" /\ ~Raised(call.result)) =>
        LET result == call.result.value
        IN  /\ Len(result) <= 20
            /\ \A j, k \in DOMAIN result : j < k => result[j].link # result[k].link
            /\ (/\ PageAnswered
                /\ \A i \in DOMAIN call.response.articles :
                     /\ ~Missing(call.response.articles[i].url)
                     /\ ~Missing(call.response.articles[i].title)) =>
                  LET upstream == call.response.articles
                      F == FirstOfLink(upstream)
                  IN  /\ Len(result) = IF Cardinality(F) < 20 THEN Cardinality(F) ELSE 20
                      /\ \A k \in DOMAIN result :
                           /\ result[k].link = upstream[Nth(F, k)].url
                           /\ result[k].title = upstream[Nth(F, k)].title

\* C17 witness: a page of more than 20 distinct links, one of them repeated
\* early, was cut to 20 articles, the repeat left out.
C17_Witness ==
    /\ call.fn = "fetch_fresh_headlines"
    /\ PageAnswered
    /\ Cardinality(FirstOfLink(call.response.articles)) > 20
    /\ call.response.articles[2].url = call.response.articles[1].url
    /\ ~Raised(call.result)
    /\ Len(call.result.value) = 20
    /\ call.result.value[2].link = call.response.articles[3].url

\* C18: the headline fetch drops every upstream item without a link or a
\* title: no returned article has a null or empty link or title, and the
\* other items of the page are returned all the same.
C18_ItemsWithoutTitleOrLinkDropped ==
    (call.fn = "fetch_fresh_headlines" /\ PageAnswered) =>
        /\ ~Raised(call.result)
        /\ \A k \in DOMAIN call.result.value :
             /\ ~Missing(call.result.value[k].link)
             /\ ~Missing(call.result.value[k].title)
        /\ Len(call.response.articles) <= 20 =>
             \A i \in FirstOfLink(call.response.articles) :
                 LET item == call.response.articles[i]
                 IN  (~Missing(item.url) /\ ~Missing(item.title)) =>
                        \E k \in DOMAIN call.result.value :
                            /\ call.result.value[k].link = item.url
                            /\ call.result.value[k].title = item.title

\* the article list the scoring loop of the call worked on
ScoredArticles ==
    IF call.fn = "update_news"
    THEN fetch_fresh_headlines(call.key_set, call.response, "news")
    ELSE get_news(call.cache_before, now, call.key_set, call.response).result

\* the classifier call raised, or its answer does not parse to a severity
ClassifierFailed(gpt) ==
    \/ "gpt_error" \in DOMAIN gpt
    \/ "severity" \notin DOMAIN gpt

\* C19: an article whose classifier call fails is still in the results, with
\* severity 0 and explanation "Error in analysis": for every pattern of
\* failures the results are as many as the non-empty articles and the
\* aggregate is computed over all of them.
C19_ClassifierFailureKeepsArticle ==
    (/\ call.fn \in {"update_news", "calculate_doomsday_probability"}
     /\ ~Raised(ScoredArticles)) =>
        LET articles == ScoredArticles.value
            scored == {i \in DOMAIN articles : ~EmptyText(articles[i])}
        IN  /\ ~Raised(call.result)
            /\ Len(call.result.value.detailed_results) = Cardinality(scored)
            /\ call.result.value.analysis_basis = Cardinality(scored)
            /\ \A k \in DOMAIN call.result.value.detailed_results :
                 ClassifierFailed(call.gpt[Nth(scored, k)]) =>
                    call.result.value.detailed_results[k].analysis = ErrorAnalysis

\* C26: get_news answers from the cache file, without calling upstream,
\* exactly when the file has an entry for today's date whose timestamp is
\* less than 12 hours old, and then returns that entry's headlines and leaves
\* the file alone; otherwise it returns what the fetch returned and replaces
\* today's entry (timestamp now, the fetched headlines) only when the fetch
\* returned a non-empty list, leaving every other entry as it was; a failed
\* or empty fetch leaves the whole file as it was.
C26_CacheServedWhenFresh ==
    call.fn = "get_news" =>
        LET before == call.cache_before
            today == DateOf(now)
            fresh == today \in DOMAIN before /\ now - before[today].timestamp < 12
            fetch == fetch_fresh_headlines(call.key_set, call.response, "news_analysis")
        IN  /\ call.fetched <=> ~fresh
            /\ fresh => /\ call.result = Return(before[today].headlines)
                        /\ headlines_cache = before
            /\ ~fresh =>
                 /\ call.result = fetch
                 /\ IF ~Raised(fetch) /\ fetch.value # <<>>
                    THEN /\ DOMAIN headlines_cache = DOMAIN before \cup {today}
                         /\ headlines_cache[today] =
                                [timestamp |-> now, headlines |-> fetch.value]
                         /\ \A d \in DOMAIN before \ {today} :
                                headlines_cache[d] = before[d]
                    ELSE headlines_cache = before

\* C26 witness: today's entry is exactly 12 hours old, so the headlines were
\* fetched and today's entry replaced, next to yesterday's untouched entry.
C26_Witness ==
    /\ call.fn = "get_news"
    /\ DOMAIN call.cache_before = {-1, 0}
    /\ now - call.cache_before[0].timestamp = 12
    /\ call.fetched
    /\ ~Raised(call.result)
    /\ call.result.value # <<>>
    /\ headlines_cache[0] = [timestamp |-> now, headlines |-> call.result.value]
    /\ headlines_cache[-1] = call.cache_before[-1]
    /\ headlines_cache[0] # call.cache_before[0]

(***************************************************************************)
(* Claims about the document store (SpecStore)                             *)
(***************************************************************************)
\* C27: when the store answers and holds no 'latest' document,
\* get_latest_from_firebase and the /read handler raise HTTPException 404
\* "No analysis data found"; they raise 500 when the store itself fails.
C27_MissingLatestIs404 ==
    call.fn \in {"get_latest_from_firebase", "read_latest_analysis"} =>
        /\ (call.store_answer = "ok" /\ call.store.latest = None) =>
               /\ Raised(call.result)
               /\ call.result.status_code = 404
        /\ call.store_answer = "down" =>
               /\ Raised(call.result)
               /\ call.result.status_code = 500

\* the timestamp-keyed documents with the greatest timestamp
NewestDocs ==
    { d \in db.docs : \A e \in db.docs :
                         e.data.metadata.timestamp <= d.data.metadata.timestamp }

\* C28: after any sequence of saves, failed ones included, 'latest' is the
\* payload of the timestamp-keyed document written most recently: the store
\* never holds a timestamp-keyed document newer than what 'latest' holds.
C28_LatestIsNewestDocument ==
    db.docs # {} => /\ db.latest # None
                    /\ \E d \in NewestDocs : d.data = db.latest

\* a refresh has been started and has not returned
RefreshInFlight == "pc" \in DOMAIN call

\* C24: every refresh eventually completes and returns to idle: the upstream
\* request is bounded by a timeout, so even an upstream that never answers
\* ends the request with an error and the refresh terminates.
C24_RefreshEventuallyReturns == RefreshInFlight ~> ~RefreshInFlight

\* C9: interpret_probability partitions [0,100] into the half-open ascending
\* bands [0,20) [20,40) [40,60) [60,80) [80,100]: every probability gets
\* exactly the interpretation of its band, 19.99 is business as usual and
\* 20.0 is the concerning band.
C9_BandsPartitionTheRange ==
    call.fn = "interpret_probability" =>
        LET p == call.probability
            r == call.result
        IN  /\ r \in {BusinessAsUsual, Concerning, MultipleChallenges,
                      HighInstability, ExtremeAlert}
            /\ r = BusinessAsUsual <=> (0 <= p /\ p < 2000)
            /\ r = Concerning <=> (2000 <= p /\ p < 4000)
            /\ r = MultipleChallenges <=> (4000 <= p /\ p < 6000)
            /\ r = HighInstability <=> (6000 <= p /\ p < 8000)
            /\ r = ExtremeAlert <=> (8000 <= p /\ p <= MaxProbability)
            /\ p = 1999 => r = BusinessAsUsual
            /\ p = 2000 => r = Concerning

\* C9 witness: probability 20.0 was interpreted as the concerning band.
C9_Witness ==
    /\ call.fn = "interpret_probability"
    /\ call.probability = 2000
    /\ call.result = Concerning

(***************************************************************************)
(* Claims about the /update handler (SpecApp)                              *)
(***************************************************************************)
\* C6: no error in one feed's pipeline propagates into another feed or into
\* what is served: whenever a feed's own fetch and scoring succeed in an
\* /update whose store answers, the response is returned and carries that
\* feed's results, whatever happened to the other feeds.
C6_FeedErrorsDoNotPropagate ==
    (call.fn = "get_analysis" /\ call.store_answer = "ok") =>
        LET stocks == defense_stocks_get_defense_stocks_data(call.yf, FALSE)
            news == calculate_doomsday_probability(call.cache_before, now, call.key_set,
                                                   call.response, call.gpt).result
            pizza == app_get_pentagon_pizza_data(call.pt, now)
        IN  /\ ~Raised(stocks) =>
                 /\ ~Raised(call.result)
                 /\ call.result.value.defense_stocks_analysis.market_summary =
                        StocksMarketSummary(stocks.value)
            /\ ~Raised(news) =>
                 /\ ~Raised(call.result)
                 /\ call.result.value.news_analysis.articles = news.value.detailed_results
            /\ ~Raised(pizza) =>
                 /\ ~Raised(call.result)
                 /\ call.result.value.local_pizza_analysis.detailed_places =
                        pizza.value.pizza_places

\* the response_data the /update handler computed from the three feeds, or
\* the exception that kept it from computing one
ComputedResponse ==
    LET stocks == defense_stocks_get_defense_stocks_data(call.yf, FALSE)
        news == calculate_doomsday_probability(call.cache_before, now, call.key_set,
                                               call.response, call.gpt).result
        pizza == app_get_pentagon_pizza_data(call.pt, now)
    IN  IF Raised(stocks) THEN stocks
        ELSE IF Raised(news) THEN news
        ELSE IF Raised(pizza) THEN pizza
        ELSE ResponseData(stocks.value, news.value, pizza.value, now)

\* C14: when the store cannot be written, save_to_firebase reports the
\* failure to its caller, and the analysis that was just computed is not
\* lost: it is still returned by the request or served as the latest one.
C14_SaveFailureKeepsSnapshot ==
    (/\ call.fn = "get_analysis"
     /\ call.store_answer # "ok"
     /\ ~Raised(ComputedResponse)) =>
        /\ Raised(save_to_firebase([docs |-> {}, latest |-> None], ComputedResponse.value,
                                   call.store_answer).result)
        /\ \/ call.result = ComputedResponse
           \/ db.latest = ComputedResponse.value

RECURSIVE InSeq(_, _)
InSeq(x, seq) == seq # <<>> /\ (Head(seq) = x \/ InSeq(x, Tail(seq)))

\* C10: calculate_pizza_status_distribution puts every venue in exactly one
\* of the five buckets, by strict thresholds on percent_difference (> 50
\* very_busy, > 20 busy, < -50 very_quiet, < -20 quiet, else typical): 20.0
\* and -20.0 are typical, 50.0 is busy, and the five counts add up to the
\* number of venues.
C10_EveryVenueInOneBucket ==
    call.fn = "calculate_pizza_status_distribution" =>
        LET dist == call.result
        IN  /\ \A i \in DOMAIN call.places :
                 LET name == call.places[i].name
                     percent_diff == call.places[i].current_status.percent_difference
                     bucket == IF percent_diff > 500 THEN "very_busy"
                               ELSE IF percent_diff > 200 THEN "busy"
                               ELSE IF percent_diff < -500 THEN "very_quiet"
                               ELSE IF percent_diff < -200 THEN "quiet"
                               ELSE "typical"
                 IN  /\ \A b \in Buckets : InSeq(name, dist.places[b]) <=> b = bucket
                     /\ percent_diff \in {200, -200} => InSeq(name, dist.places["typical"])
                     /\ percent_diff = 500 => InSeq(name, dist.places["busy"])
            /\ \A b \in Buckets : dist.counts[b] = Len(dist.places[b])
            /\ dist.counts["very_busy"] + dist.counts["busy"] + dist.counts["typical"]
               + dist.counts["quiet"] + dist.counts["very_quiet"] = Len(call.places)

\* the position of the venue of this name in the fetched list
VenuePos(venues, name) == CHOOSE i \in DOMAIN venues : venues[i].name = name

\* C22: the published venue list is a permutation of the scored venues in
\* descending order of abs(percent_difference), and venues of equal
\* abs(percent_difference) stand in their fetched order.
C22_SortedByUnusualnessStable ==
    call.fn = "calculate_pizza_status_distribution" =>
        LET venues == call.venues
            places == call.places
            abs_pd(k) == IF places[k].current_status.percent_difference < 0
                         THEN -places[k].current_status.percent_difference
                         ELSE places[k].current_status.percent_difference
        IN  /\ Len(places) = Len(venues)
            /\ \A i \in DOMAIN venues :
                 \E k \in DOMAIN places :
                     /\ places[k].name = venues[i].name
                     /\ places[k].current_status.current_popularity =
                            venues[i].current_popularity
            /\ \A j, k \in DOMAIN places :
                 j < k => /\ abs_pd(j) >= abs_pd(k)
                          /\ abs_pd(j) = abs_pd(k) =>
                                 VenuePos(venues, places[j].name)
                                 < VenuePos(venues, places[k].name)

\* C22 witness: of three venues fetched at -20, +50 and +20 percent, the
\* second was published first and the two at 20 percent kept their order.
C22_Witness ==
    /\ call.fn = "calculate_pizza_status_distribution"
    /\ Len(call.venues) = 3
    /\ call.places[1].name = call.venues[2].name
    /\ call.places[2].name = call.venues[1].name
    /\ call.places[3].name = call.venues[3].name
    /\ call.places[1].current_status.percent_difference = 500
    /\ call.places[2].current_status.percent_difference = -200
    /\ call.places[3].current_status.percent_difference = 200

\* C10 witness: venues at exactly 20.0, -20.0 and 50.0 were distributed.
C10_Witness ==
    /\ call.fn = "calculate_pizza_status_distribution"
    /\ \A pd \in {200, -200, 500} :
         \E i \in DOMAIN call.places :
             call.places[i].current_status.percent_difference = pd
    /\ call.result.counts["typical"] = 2
    /\ call.result.counts["busy"] = 1

(***************************************************************************)
(* Claims about the venue builders (SpecVenues)                            *)
(***************************************************************************)
VenueBuilders == {"update_pentagon_pizza_data", "app.get_pentagon_pizza_data"}

\* every pizza place both queries listed carries a name and an address
WellKeyed(places) == \A i \in DOMAIN places : {"name", "address"} \subseteq DOMAIN places[i]

\* the five-way classification by the thresholds 50, 20, -20, -50 (tenths)
ThresholdStatus(percent_difference) ==
    IF percent_difference > 500 THEN "very_busy"
    ELSE IF percent_difference > 200 THEN "busy"
    ELSE IF percent_difference < -500 THEN "very_quiet"
    ELSE IF percent_difference < -200 THEN "quiet"
    ELSE "typical"

\* C11: the status stored on every published venue record is one of
\* very_busy / busy / typical / quiet / very_quiet and is the threshold
\* classification of the record's percent_difference; a venue at 80 whose
\* typical value is 40 has busyness_ratio 2.0, percent_difference 100.0 and
\* status very_busy.
C11_RecordStatusIsThresholdClass ==
    (call.fn \in VenueBuilders /\ ~Raised(call.result)) =>
        \A i \in DOMAIN call.result.value.pizza_places :
            LET cs == call.result.value.pizza_places[i].current_status
            IN  /\ cs.status \in Buckets
                /\ cs.status = ThresholdStatus(cs.percent_difference)
                /\ (cs.current_popularity = 80 /\ cs.typical_popularity = 40) =>
                       /\ cs.busyness_ratio = 200
                       /\ cs.percent_difference = 1000
                       /\ cs.status = "very_busy"

\* the position of the first place of the list that has this name and address
FirstAt(places, name, address) ==
    CHOOSE i \in DOMAIN places :
        /\ places[i].name = name /\ places[i].address = address
        /\ \A m \in 1..(i - 1) : ~(places[m].name = name /\ places[m].address = address)

\* C12: over the pizza places of both queries, the unique list holds exactly
\* one entry per distinct (name, address) pair, that entry is the pair's
\* first occurrence, and the entries stand in first-occurrence order,
\* whichever query produced each duplicate.
C12_UniqueKeepsFirstOccurrence ==
    (call.fn \in VenueBuilders /\ ~Raised(call.places) /\ WellKeyed(call.places.value)) =>
        LET places == call.places.value
            unique == call.unique_places
        IN  /\ ~Raised(unique)
            /\ \A i \in DOMAIN places :
                 Cardinality({j \in DOMAIN unique.value :
                                /\ unique.value[j].name = places[i].name
                                /\ unique.value[j].address = places[i].address}) = 1
            /\ \A j \in DOMAIN unique.value :
                 unique.value[j] =
                     places[FirstAt(places, unique.value[j].name, unique.value[j].address)]
            /\ \A j, k \in DOMAIN unique.value :
                 j < k => FirstAt(places, unique.value[j].name, unique.value[j].address)
                          < FirstAt(places, unique.value[k].name, unique.value[k].address)

\* C12 witness: the take-away query listed a place the restaurant query had
\* listed first with another reading, next to a place of the same name at
\* another address; the unique list kept the first reading and both addresses.
C12_Witness ==
    /\ call.fn \in VenueBuilders
    /\ ~Raised(call.places)
    /\ WellKeyed(call.places.value)
    /\ Len(call.places.value) = 3
    /\ call.places.value[1].name = call.places.value[3].name
    /\ call.places.value[1].address = call.places.value[3].address
    /\ call.places.value[1] # call.places.value[3]
    /\ call.places.value[2].name = call.places.value[1].name
    /\ call.places.value[2].address # call.places.value[1].address
    /\ call.unique_places = Return(SubSeq(call.places.value, 1, 2))

\* the entry of the place's own table for the current weekday and hour, 0
\* when the weekday is absent or the hour lies beyond that day's data
ExpectedTypical(place, t) ==
    LET days == place.populartimes
        listed == {i \in DOMAIN days : days[i].name = DayNameOf(t)}
    IN  IF listed = {} THEN 0
        ELSE LET day == days[CHOOSE i \in listed : \A m \in listed : i <= m]
             IN  IF HourOf(t) + 1 \in DOMAIN day.data THEN day.data[HourOf(t) + 1] ELSE 0

\* C20: every venue with a live reading is published with typical_popularity
\* the current-hour entry of its own table for the current weekday (0 when
\* the weekday is absent or the hour index is out of range) and with
\* busyness_ratio current / typical when typical > 0, else 1.
C20_TypicalFromOwnTable ==
    (call.fn \in VenueBuilders /\ ~Raised(call.places) /\ WellKeyed(call.places.value)) =>
        /\ ~Raised(call.result)
        /\ \A i \in DOMAIN call.unique_places.value :
             LET place == call.unique_places.value[i]
                 typical == ExpectedTypical(place, now)
             IN  "current_popularity" \in DOMAIN place =>
                    \E k \in DOMAIN call.result.value.pizza_places :
                        LET rec == call.result.value.pizza_places[k]
                        IN  /\ rec.name = place.name /\ rec.address = place.address
                            /\ rec.current_status.current_popularity = place.current_popularity
                            /\ rec.current_status.typical_popularity = typical
                            /\ rec.current_status.busyness_ratio =
                                   IF typical > 0
                                   THEN RoundHalfEven(place.current_popularity * 100, typical)
                                   ELSE 100

\* the place carries every key the builders read and full hourly tables
WellFormed(place) ==
    /\ {"name", "address", "populartimes"} \subseteq DOMAIN place
    /\ \A d \in DOMAIN place.populartimes : Len(place.populartimes[d].data) = HoursPerDay

\* C21: one malformed venue (no address, a short hourly table) is skipped
\* or degraded on its own: the builder still returns, and every well-formed
\* venue with a live reading of the same fetch is in the published list.
C21_MalformedVenueIsIsolated ==
    (call.fn \in VenueBuilders /\ ~Raised(call.places)) =>
        /\ ~Raised(call.result)
        /\ \A i \in DOMAIN call.places.value :
             LET place == call.places.value[i]
             IN  (WellFormed(place) /\ "current_popularity" \in DOMAIN place) =>
                    \E k \in DOMAIN call.result.value.pizza_places :
                        /\ call.result.value.pizza_places[k].name = place.name
                        /\ call.result.value.pizza_places[k].address = place.address

(***************************************************************************)
(* Calls checked on their own: each specification below makes one call     *)
(* with inputs drawn from its input set and records arguments and result.  *)
(***************************************************************************)
NoCall == [fn |-> "none"]

CallFetchDefenseStocks ==
    /\ call = NoCall
    /\ \E yf \in QuoteInputs :
         call' = [fn |-> "fetch_defense_stocks_data", yf |-> yf,
                  result |-> Return(fetch_defense_stocks_data(yf))]
    /\ UNCHANGED <<now, cacheVars, headlines_cache, db>>

CallLegacyGetDefenseStocks ==
    /\ call = NoCall
    /\ \E yf \in QuoteInputs, sys_imported \in BOOLEAN :
         call' = [fn |-> "defense_stocks.get_defense_stocks_data", yf |-> yf,
                  sys_imported |-> sys_imported,
                  result |-> defense_stocks_get_defense_stocks_data(yf, sys_imported)]
    /\ UNCHANGED <<now, cacheVars, headlines_cache, db>>

InitSlots ==
    /\ stocks_data = None
    /\ stocks_task = IdleTask
    /\ pizza_data = None
    /\ pizza_task = IdleTask
    /\ read_result = [feed |-> "none", value |-> None]
    /\ rival = IdleRival
    /\ heap = EmptyHeap

\* no cache file, an empty collection
InitApp ==
    /\ headlines_cache = <<>>
    /\ db = [docs |-> {}, latest |-> None]
    /\ call = NoCall

Init == now = 0 /\ InitSlots /\ InitApp

CallFetchFreshHeadlines ==
    /\ call = NoCall
    /\ \E variant \in {"news", "news_analysis"}, key_set \in BOOLEAN,
          response \in NewsResponses \cup LongResponses :
         call' = [fn |-> "fetch_fresh_headlines", variant |-> variant,
                  key_set |-> key_set, response |-> response,
                  result |-> fetch_fresh_headlines(key_set, response, variant)]
    /\ UNCHANGED <<now, cacheVars, headlines_cache, db>>

CallUpdateNews ==
    /\ call = NoCall
    /\ \E key_set \in BOOLEAN, response \in NewsResponses, gpt \in GptInputs :
         call' = [fn |-> "update_news", key_set |-> key_set, response |-> response,
                  gpt |-> gpt, result |-> update_news(key_set, response, gpt, now)]
    /\ UNCHANGED <<now, cacheVars, headlines_cache, db>>

CallCalculateDoomsdayProbability ==
    /\ call = NoCall
    /\ \E key_set \in BOOLEAN, response \in NewsResponses, gpt \in GptInputs :
         LET r == calculate_doomsday_probability(headlines_cache, now, key_set,
                                                 response, gpt)
         IN  /\ call' = [fn |-> "calculate_doomsday_probability", key_set |-> key_set,
                         response |-> response, gpt |-> gpt,
                         cache_before |-> headlines_cache, result |-> r.result]
             /\ headlines_cache' = r.cache
    /\ UNCHANGED <<now, cacheVars, db>>

CallGetNews ==
    /\ call = NoCall
    /\ \E key_set \in BOOLEAN, response \in NewsResponses :
         LET r == get_news(headlines_cache, now, key_set, response)
         IN  /\ call' = [fn |-> "get_news", key_set |-> key_set, response |-> response,
                         cache_before |-> headlines_cache, fetched |-> r.fetched,
                         result |-> r.result]
             /\ headlines_cache' = r.cache
    /\ UNCHANGED <<now, cacheVars, db>>

CallInterpretProbability ==
    /\ call = NoCall
    /\ \E probability \in 0..MaxProbability :
         call' = [fn |-> "interpret_probability", probability |-> probability,
                  result |-> interpret_probability(probability)]
    /\ UNCHANGED <<now, cacheVars, headlines_cache, db>>

InitNews ==
    /\ now \in NewsTimes
    /\ InitSlots
    /\ headlines_cache \in NewsCacheInits
    /\ db = [docs |-> {}, latest |-> None]
    /\ call = NoCall

NextNews ==
    \/ CallFetchFreshHeadlines
    \/ CallUpdateNews
    \/ CallCalculateDoomsdayProbability
    \/ CallGetNews
    \/ CallInterpretProbability

SpecNews == InitNews /\ [][NextNews]_vars

CallPizzaStatusDistribution ==
    /\ call = NoCall
    /\ \E venues \in VenueLists :
         LET pizza == app_get_pentagon_pizza_data(
                          [restaurant |-> Return(venues), meal_takeaway |-> Return(<<>>)],
                          now)
         IN  call' = [fn |-> "calculate_pizza_status_distribution",
                      venues |-> venues,
                      places |-> pizza.value.pizza_places,
                      result |-> calculate_pizza_status_distribution(
                                     pizza.value.pizza_places)]
    /\ UNCHANGED <<now, cacheVars, headlines_cache, db>>

CallGetAnalysis ==
    /\ call = NoCall
    /\ \E yf \in AppQuoteInputs, news \in AppNewsInputs, pt \in CachePizzaInputs,
          store_answer \in StoreAnswers :
         LET r == get_analysis(headlines_cache, db, now, yf, news.key_set,
                               news.response, news.gpt, pt, store_answer)
         IN  /\ call' = [fn |-> "get_analysis", yf |-> yf, key_set |-> news.key_set,
                         response |-> news.response, gpt |-> news.gpt, pt |-> pt,
                         store_answer |-> store_answer,
                         cache_before |-> headlines_cache, result |-> r.result]
             /\ headlines_cache' = r.cache
             /\ db' = r.store
    /\ UNCHANGED <<now, cacheVars>>

NextApp == CallGetAnalysis \/ CallPizzaStatusDistribution

SpecApp == Init /\ [][NextApp]_vars

\* pizza.py update_pentagon_pizza_data, called once: it assigns the slot and
\* returns what it assigned; places and unique_places are its local lists
CallUpdatePentagonPizzaData ==
    /\ call = NoCall
    /\ \E pt \in VenueInputs :
         LET places == FetchPlaces(pt)
         IN  /\ call' = [fn |-> "update_pentagon_pizza_data", pt |-> pt,
                         places |-> places,
                         unique_places |-> IF Raised(places) THEN places
                                           ELSE UniquePlaces(places.value, {}, <<>>),
                         result |-> Return(PizzaAnalysis(pt, now))]
             /\ pizza_data' = PublishPizza(pizza_data, PizzaAnalysis(pt, now))
    /\ UNCHANGED <<now, stocks_data, stocks_task, pizza_task, read_result,
                   headlines_cache, db, auxVars>>

\* app.py get_pentagon_pizza_data, called once
CallAppGetPentagonPizzaData ==
    /\ call = NoCall
    /\ \E pt \in VenueInputs :
         LET places == FetchPlaces(pt)
         IN  call' = [fn |-> "app.get_pentagon_pizza_data", pt |-> pt,
                      places |-> places,
                      unique_places |-> IF Raised(places) THEN places
                                        ELSE UniquePlaces(places.value, {}, <<>>),
                      result |-> app_get_pentagon_pizza_data(pt, now)]
    /\ UNCHANGED <<now, cacheVars, headlines_cache, db>>

InitVenues ==
    /\ now \in VenueTimes
    /\ InitSlots
    /\ InitApp

NextVenues == CallUpdatePentagonPizzaData \/ CallAppGetPentagonPizzaData

SpecVenues == InitVenues /\ [][NextVenues]_vars

\* stocks.py update_stocks_data, called once: it assigns the slot and returns
\* what it assigned
CallUpdateStocksData ==
    /\ call = NoCall
    /\ \E yf \in QuoteInputs \cup UniformQuoteInputs :
         /\ call' = [fn |-> "update_stocks_data", yf |-> yf,
                     result |-> Return(StocksAnalysis(yf, now))]
         /\ stocks_data' = PublishStocks(stocks_data, StocksAnalysis(yf, now))
    /\ UNCHANGED <<now, stocks_task, pizza_data, pizza_task, read_result,
                   headlines_cache, db, auxVars>>

NextQuotes ==
    \/ CallFetchDefenseStocks
    \/ CallLegacyGetDefenseStocks
    \/ CallUpdateStocksData

SpecQuotes == Init /\ [][NextQuotes]_vars

NextCache ==
    \/ Tick
    \/ StocksBuild
    \/ StocksPublish
    \/ PizzaBuild
    \/ PizzaPublish
    \/ ReadStocks
    \/ ReadPizza

SpecCache == Init /\ [][NextCache]_vars

\* the cache slots with a second caller of the update functions
NextOverlap ==
    \/ Tick
    \/ StocksBuild
    \/ StocksPublish
    \/ PizzaBuild
    \/ PizzaPublish
    \/ RivalStocksBuild
    \/ RivalPizzaBuild
    \/ RivalPublish

SpecOverlap == Init /\ [][NextOverlap]_vars

\* the cache slots as objects: whole refreshes and readers that keep what
\* they read
NextHeap == UpdateStocksData \/ UpdatePentagonPizzaData \/ HoldSnapshot

SpecHeap == Init /\ [][NextHeap]_vars

(***************************************************************************)
(* The document store over time: saves at successive times, each answered  *)
(* by the store in one of StoreAnswers, and reads of 'latest'.             *)
(***************************************************************************)
CallSaveToFirebase ==
    /\ \E data \in SavePayloads(now), store_answer \in StoreAnswers :
         LET r == save_to_firebase(db, data, store_answer)
         IN  /\ call' = [fn |-> "save_to_firebase", data |-> data,
                         store_answer |-> store_answer, result |-> r.result]
             /\ db' = r.store
    /\ UNCHANGED <<now, cacheVars, headlines_cache>>

CallGetLatestFromFirebase ==
    /\ \E store_answer \in ReadAnswers :
         call' = [fn |-> "get_latest_from_firebase", store |-> db,
                  store_answer |-> store_answer,
                  result |-> get_latest_from_firebase(db, store_answer)]
    /\ UNCHANGED <<now, cacheVars, headlines_cache, db>>

CallReadLatestAnalysis ==
    /\ \E store_answer \in ReadAnswers :
         call' = [fn |-> "read_latest_analysis", store |-> db,
                  store_answer |-> store_answer,
                  result |-> read_latest_analysis(db, store_answer)]
    /\ UNCHANGED <<now, cacheVars, headlines_cache, db>>

NextStore ==
    \/ Tick
    \/ CallSaveToFirebase
    \/ CallGetLatestFromFirebase
    \/ CallReadLatestAnalysis

SpecStore == Init /\ [][NextStore]_vars

(***************************************************************************)
(* One refresh of the news feed, step by step.  fetch_fresh_headlines      *)
(* calls requests.get(url, params=params) without a timeout argument, so   *)
(* the call returns only when the upstream answers or the connection       *)
(* fails; responds tells whether this request is ever answered.            *)
(***************************************************************************)
\* update_news is called and sends its request
RequestHeadlines ==
    /\ call = NoCall
    /\ \E responds \in BOOLEAN :
         call' = [fn |-> "update_news", pc |-> "waiting", responds |-> responds]
    /\ UNCHANGED <<now, cacheVars, headlines_cache, db>>

\* the upstream answers (or the connection fails) and update_news runs to
\* its return statement
HeadlinesArrive ==
    /\ RefreshInFlight
    /\ call.pc = "waiting"
    /\ call.responds
    /\ \E response \in NewsResponses, gpt \in GptInputs :
         call' = [fn |-> "update_news", pc |-> "returned", responds |-> TRUE,
                  response |-> response, gpt |-> gpt,
                  result |-> update_news(TRUE, response, gpt, now)]
    /\ UNCHANGED <<now, cacheVars, headlines_cache, db>>

\* the caller has the result; the feed is idle again
RefreshReturns ==
    /\ RefreshInFlight
    /\ call.pc = "returned"
    /\ call' = NoCall
    /\ UNCHANGED <<now, cacheVars, headlines_cache, db>>

NextRefresh == RequestHeadlines \/ HeadlinesArrive \/ RefreshReturns

\* the thread that runs the refresh keeps running: a step of the function
\* that can be taken is taken; nothing obliges the upstream to answer
SpecRefresh ==
    Init /\ [][NextRefresh]_vars /\ WF_vars(HeadlinesArrive) /\ WF_vars(RefreshReturns)

=============================================================================
